---------------------------- MODULE Spec2Model ----------------------------
(***************************************************************************)
(* Model of candle-vllm's paged KV-cache core:                             *)
(*   src/src/backend/cache.rs             swap_blocks, copy_blocks         *)
(*   src/src/openai/pipelines/llm_engine.rs                                *)
(*                LLMEngine::{new, add_request, generate,                  *)
(*                            prepare_prompt, prepare_decode}              *)
(*                                                                         *)
(* Three specifications share the module:                                  *)
(*   SpecTransfer  one call of swap_blocks / copy_blocks on drawn tensors  *)
(*   SpecPrepare   one call of prepare_prompt / prepare_decode on a drawn  *)
(*                 batch                                                   *)
(*   Spec          the engine: add_request and the generate loop           *)
(***************************************************************************)
EXTENDS Integers, Sequences, FiniteSets, TLC

VARIABLES
    \* ---- swap_blocks(src, dst, block_mapping) -------------------------
    src,             \* the source Tensor
    dst,             \* the destination Tensor (mutated in place)
    block_mapping,   \* HashMap<usize, usize> as a set of <<s, d>> entries
    swap_status,     \* "idle" | "ok" | "err" | "panic"
    \* ---- copy_blocks(key_caches, value_caches, block_mapping) ---------
    key_caches,      \* Vec<&mut Tensor>, one per layer
    value_caches,    \* Vec<&mut Tensor>, one per layer
    copy_mapping,    \* HashMap<usize, Vec<usize>> as a set of <<s, ds>>
    ptx_outcome,     \* what NVRTC and the driver did with the kernel
    copy_status,     \* "idle" | "ok" | "err" | "panic"
    \* ---- LLMEngine configuration (LLMEngine::new) ---------------------
    block_size,      \* cache_config.block_size
    sliding_window,  \* Option<usize>: <<>> is None, <<w>> is Some(w)
    overflow_checks, \* the build: TRUE panics on usize overflow, FALSE wraps
    \* ---- prepare_prompt(groups) / prepare_decode(groups) --------------
    groups,          \* VecDeque<Rc<SequenceGroup>>: each group its Sequences
    block_tables,    \* scheduler.block_engine.block_tables: seq id -> table
    prepared,        \* what the call produced
    \* ---- LLMEngine and its scheduler ----------------------------------
    seq_id,          \* LLMEngine::seq_id
    group_id,        \* LLMEngine::group_id
    scheduler,       \* LLMEngine::scheduler: the groups it was handed
    scheduler_outputs, \* what schedule() returned in the current round
    gen_pc           \* where generate is: "idle" | "loop" | "panic: <site>"

transferVars == <<src, dst, block_mapping, swap_status,
                  key_caches, value_caches, copy_mapping, ptx_outcome, copy_status>>

configVars == <<block_size, sliding_window, overflow_checks>>

prepareVars == <<groups, block_tables, prepared>>

engineVars == <<seq_id, group_id, scheduler, scheduler_outputs, gen_pc>>

vars == <<transferVars, configVars, prepareVars, engineVars>>

-----------------------------------------------------------------------------
(* Bounds of the model.                                                    *)

\* largest leading dimension (dims()[0]) of a cache tensor
MaxDim0 == 2
\* largest number of blocks a cache tensor holds
MaxBlocks == 2
\* largest start offset of a tensor's layout inside its storage
MaxStartOffset == 1
\* largest CUDA ordinal
MaxOrdinal == 1
\* largest number of layers handed to copy_blocks
MaxLayers == 2

-----------------------------------------------------------------------------
(* Tensors.  A tensor is a layout (dims, start_offset) over a storage that *)
(* lives on a device.  The storage is modelled as its bytes; address a of  *)
(* the storage is storage[a + 1].                                          *)

\* DType::size_in_bytes
size_in_bytes(dtype) == IF dtype = "U8" THEN 1 ELSE 2

\* Contents are tags: byte a of a storage filled with `tag` is tag + a, so
\* that every byte of every buffer of a call is distinguishable.
Fill(tag, n) == [a \in 1..n |-> tag + (a - 1)]

SrcFill(n) == Fill(100, n)
DstFill(n) == Fill(200, n)

\* A tensor of dims [dim0, blocks] whose layout starts start_offset
\* elements into its storage.
StorageLen(dtype, dim0, blocks, start_offset) ==
    (start_offset + dim0 * blocks) * size_in_bytes(dtype)

MkTensor(dev, dtype, dim0, blocks, start_offset, bytes) ==
    [device |-> dev[1], ordinal |-> dev[2], dtype |-> dtype,
     dims |-> <<dim0, blocks>>, start_offset |-> start_offset,
     storage |-> bytes]

\* The value of an argument before any call has been made.
NoTensor == MkTensor(<<"Cpu", 0>>, "U8", 1, 1, 0, <<>>)

Devices == {<<"Cpu", 0>>} \cup {<<"Cuda", o>> : o \in 0..MaxOrdinal}
DTypes == {"U8", "F16"}

\* cache.rs:45  block_size_in_bytes = src.dtype().size_in_bytes() * src.dims()[0]
block_size_in_bytes(t) == size_in_bytes(t.dtype) * t.dims[1]

\* Number of blocks of block_size_in_bytes bytes the tensor's elements span.
NumBlocks(t) == t.dims[2]

\* CudaStorage::as_cuda_slice::<u8> / CpuStorage::as_slice::<u8>: the typed
\* view exists only for storage whose dtype is U8 (cache.rs:57,58,77,78,97,98
\* propagate the error with map_err / try_api!).
as_u8_slice_ok(t) == t.dtype = "U8"

\* The byte-range copy all three device primitives perform: n bytes from
\* address sa of storage s to address da of storage d.
memcpy(d, da, s, sa, n) ==
    [i \in 1..Len(d) |->
        IF (i - 1) >= da /\ (i - 1) < da + n THEN s[sa + (i - da)] ELSE d[i]]

\* cache.rs:48  the same-device check of the Cuda/Cuda arm
OrdinalsDifferNever(s, d) == FALSE
ordinals_differ(s, d) == s.ordinal # d.ordinal

\* cache.rs:60-68  one iteration of the Cuda -> Cuda loop
dtod_entry(s, d, e) ==
    LET bs == block_size_in_bytes(s)
        src_ptr == s.start_offset
        dst_ptr == d.start_offset
        src_offset == e[1] * bs
        dst_offset == e[2] * bs
    IN [status |-> "ok",
        storage |-> memcpy(d.storage, dst_ptr + dst_offset,
                           s.storage, src_ptr + src_offset, bs)]

\* cache.rs:80-87  one iteration of the Cpu -> Cuda loop.  The source slice
\* is the whole host storage (as_slice), indexed from its start: the
\* source layout (_src_layout) is not consulted.  Slicing past the end of
\* the host storage panics.
htod_entry(s, d, e) ==
    LET bs == block_size_in_bytes(s)
        dst_ptr == d.start_offset
        src_offset == e[1] * bs
        dst_offset == e[2] * bs
    IN IF src_offset + bs > Len(s.storage)
       THEN [status |-> "panic", storage |-> d.storage]
       ELSE [status |-> "ok",
             storage |-> memcpy(d.storage, dst_ptr + dst_offset,
                                s.storage, src_offset, bs)]

\* cache.rs:103-110  one iteration of the Cuda -> Cpu loop.  dst_slice is
\* the whole host storage (as_slice, from_raw_parts_mut over its full
\* length); dst_offset is computed and not used.  dtoh_sync_copy_into
\* panics unless source and destination slices have the same length.
dtoh_entry(s, d, e) ==
    LET bs == block_size_in_bytes(s)
        src_ptr == s.start_offset
        src_offset == e[1] * bs
    IN IF bs # Len(d.storage)
       THEN [status |-> "panic", storage |-> d.storage]
       ELSE [status |-> "ok",
             storage |-> memcpy(d.storage, 0, s.storage, src_ptr + src_offset, bs)]

\* The `for (src_block_number, dst_block_number) in block_mapping` loops:
\* entries are visited in the order `order` (a HashMap iterates in an
\* unspecified order); a failing entry ends the call.
RECURSIVE swap_loop(_, _, _, _, _)
swap_loop(arm, s, d, order, k) ==
    IF k > Len(order) THEN [status |-> "ok", storage |-> d.storage]
    ELSE LET r == CASE arm = "dtod" -> dtod_entry(s, d, order[k])
                    [] arm = "htod" -> htod_entry(s, d, order[k])
                    [] OTHER        -> dtoh_entry(s, d, order[k])
         IN IF r.status # "ok" THEN r
            ELSE swap_loop(arm, s, [d EXCEPT !.storage = r.storage], order, k + 1)

\* cache.rs:40-118  swap_blocks: the status it ends with and the bytes of dst.
swap_blocks_result(s, d, order) ==
    LET unchanged(st) == [status |-> st, storage |-> d.storage]
    IN CASE s.device = "Cuda" /\ d.device = "Cuda" ->
              IF ordinals_differ(s, d) THEN unchanged("err")
              ELSE IF ~as_u8_slice_ok(s) \/ ~as_u8_slice_ok(d) THEN unchanged("err")
              ELSE swap_loop("dtod", s, d, order, 1)
         [] s.device = "Cpu" /\ d.device = "Cuda" ->
              IF ~as_u8_slice_ok(d) \/ ~as_u8_slice_ok(s) THEN unchanged("err")
              ELSE swap_loop("htod", s, d, order, 1)
         [] s.device = "Cuda" /\ d.device = "Cpu" ->
              IF ~as_u8_slice_ok(s) \/ ~as_u8_slice_ok(d) THEN unchanged("err")
              ELSE swap_loop("dtoh", s, d, order, 1)
         [] OTHER -> unchanged("err")

\* All orders in which a HashMap holding the entries m may be iterated.
Orders(m) ==
    {o \in [1..Cardinality(m) -> m] : \A i, j \in DOMAIN o : i # j => o[i] # o[j]}

\* Block mappings from the blocks of s to the blocks of d: a HashMap has one
\* value per key, and the caller gives each destination block at most once.
BlockMappings(ns, nd) ==
    {m \in SUBSET ((0..(ns - 1)) \X (0..(nd - 1))) :
        \A e, f \in m : e # f => (e[1] # f[1] /\ e[2] # f[2])}

\* The action: one call of swap_blocks.  Source and destination have the
\* same dtype and leading dimension (the caches of one model) and their
\* own block count, start offset and device.
swap_blocks ==
    /\ swap_status = "idle" /\ copy_status = "idle"
    /\ \E sdev \in Devices, ddev \in Devices, dtype \in DTypes,
          dim0 \in 1..MaxDim0, ns \in 1..MaxBlocks, nd \in 1..MaxBlocks,
          so \in 0..MaxStartOffset, do \in 0..MaxStartOffset :
         LET s == MkTensor(sdev, dtype, dim0, ns, so,
                           SrcFill(StorageLen(dtype, dim0, ns, so)))
             d == MkTensor(ddev, dtype, dim0, nd, do,
                           DstFill(StorageLen(dtype, dim0, nd, do)))
         IN \E m \in BlockMappings(ns, nd) : \E order \in Orders(m) :
              LET r == swap_blocks_result(s, d, order)
              IN /\ src' = s
                 /\ block_mapping' = m
                 /\ swap_status' = r.status
                 /\ dst' = [d EXCEPT !.storage = r.storage]
    /\ UNCHANGED <<key_caches, value_caches, copy_mapping, ptx_outcome, copy_status>>
    /\ UNCHANGED <<configVars, prepareVars, engineVars>>

-----------------------------------------------------------------------------
(* copy_blocks                                                             *)

\* Blocks of a cache handed to copy_blocks.
CopyBlocksPerCache == MaxBlocks + 1

\* HashMap<usize, Vec<usize>>: a source block and the destination blocks it
\* is replicated to (as in the fork of one sequence), or no entry at all.
CopyMappings ==
    {{}} \cup
    {{e} : e \in {f \in (0..(CopyBlocksPerCache - 1))
                            \X ((SUBSET (0..(CopyBlocksPerCache - 1))) \ {{}}) :
                       f[1] \notin f[2]}}

\* The i-th cache of a call: its bytes are tagged by i so that layers differ.
CacheTensor(dev, dim0, i) ==
    MkTensor(dev, "U8", dim0, CopyBlocksPerCache, 0,
             Fill(10 * i, StorageLen("U8", dim0, CopyBlocksPerCache, 0)))

\* cache.rs:23-38  copy_blocks: the status it ends with.  The caches are
\* never written: the function ends in todo!() after loading the kernel.
\*   28     key_caches.first().unwrap()       panics on an empty Vec
\*   29-31  panics unless the first key cache is on a CUDA device
\*   34     compile_ptx(..).unwrap()          panics when NVRTC rejects it
\*   35     try_api!(dev.load_ptx(..))        returns the driver's error
\*   37     todo!()                           panics
copy_blocks_status(kc, ptx) ==
    IF Len(kc) = 0 THEN "panic"
    ELSE IF kc[1].device # "Cuda" THEN "panic"
    ELSE IF ptx = "compile_fails" THEN "panic"
    ELSE IF ptx = "load_fails" THEN "err"
    ELSE "panic"

copy_blocks ==
    /\ swap_status = "idle" /\ copy_status = "idle"
    /\ \E layers \in 1..MaxLayers, dev \in Devices, dim0 \in 1..MaxDim0,
          m \in CopyMappings, ptx \in {"compile_fails", "load_fails", "loaded"} :
         LET kc == [i \in 1..layers |-> CacheTensor(dev, dim0, 2 * i)]
             vc == [i \in 1..layers |-> CacheTensor(dev, dim0, 2 * i + 1)]
         IN /\ key_caches' = kc
            /\ value_caches' = vc
            /\ copy_mapping' = m
            /\ ptx_outcome' = ptx
            /\ copy_status' = copy_blocks_status(kc, ptx)
    /\ UNCHANGED <<src, dst, block_mapping, swap_status>>
    /\ UNCHANGED <<configVars, prepareVars, engineVars>>

TransferInit ==
    /\ src = NoTensor /\ dst = NoTensor
    /\ block_mapping = {} /\ swap_status = "idle"
    /\ key_caches = <<>> /\ value_caches = <<>>
    /\ copy_mapping = {} /\ ptx_outcome = "none" /\ copy_status = "idle"

TransferNext == swap_blocks \/ copy_blocks

-----------------------------------------------------------------------------
(* Properties of the transfer engine.                                      *)

\* Block b of a tensor: the block_size_in_bytes bytes at
\* base + start offset + b * block_size_in_bytes, read from `bytes`.
BlockBytes(t, bytes, b) ==
    LET bs == block_size_in_bytes(t)
    IN [k \in 1..bs |-> bytes[t.start_offset + b * bs + k]]

\* The bytes dst held when the call was made.
DstBefore == DstFill(Len(dst.storage))

SupportedPairing(s, d) ==
    \/ s.device = "Cuda" /\ d.device = "Cuda" /\ s.ordinal = d.ordinal
    \/ s.device = "Cpu" /\ d.device = "Cuda"
    \/ s.device = "Cuda" /\ d.device = "Cpu"

UnsupportedPairing(s, d) ==
    \/ s.device = "Cuda" /\ d.device = "Cuda" /\ s.ordinal # d.ordinal
    \/ s.device = "Cpu" /\ d.device = "Cpu"

\* C1: after a successful swap_blocks on a supported pairing, every mapped
\* destination block d holds the bytes of its source block s, and every
\* destination block that is no mapping target holds the bytes it held.
C1_SwapCopiesEachMappedBlock ==
    (swap_status = "ok" /\ SupportedPairing(src, dst)) =>
        \A b \in 0..(NumBlocks(dst) - 1) :
            IF \E e \in block_mapping : e[2] = b
            THEN \A e \in block_mapping :
                    e[2] = b => BlockBytes(dst, dst.storage, b)
                                  = BlockBytes(src, src.storage, e[1])
            ELSE BlockBytes(dst, dst.storage, b) = BlockBytes(dst, DstBefore, b)

\* C2: swap_blocks on an unsupported pairing (device buffers on different
\* ordinals, or two host buffers) returns an error and leaves every byte
\* of the destination as it was, whatever the mapping.
C2_UnsupportedPairingIsRejected ==
    (swap_status # "idle" /\ UnsupportedPairing(src, dst)) =>
        (swap_status = "err" /\ dst.storage = DstBefore)

\* C2 witness: a call between U8 device buffers on different ordinals with
\* a non-empty mapping has returned its error.
C2_Witness ==
    /\ swap_status = "err"
    /\ src.device = "Cuda" /\ dst.device = "Cuda" /\ src.ordinal # dst.ordinal
    /\ src.dtype = "U8" /\ block_mapping # {}

\* C3: copy_blocks, called on CUDA caches with a mapping
\* source -> [destinations] and a kernel that loads, completes, and in every
\* layer's key cache and value cache each destination block holds the bytes
\* of its source block (which are the bytes the source block held before).
C3_ReplicateCopiesSourceToDestinations ==
    (/\ copy_status # "idle"
     /\ copy_mapping # {}
     /\ ptx_outcome = "loaded"
     /\ \A i \in DOMAIN key_caches :
           key_caches[i].device = "Cuda" /\ value_caches[i].device = "Cuda") =>
        /\ copy_status = "ok"
        /\ \A i \in DOMAIN key_caches :
             \A e \in copy_mapping : \A d \in e[2] :
                /\ BlockBytes(key_caches[i], key_caches[i].storage, d)
                     = BlockBytes(key_caches[i], Fill(10 * (2 * i), Len(key_caches[i].storage)), e[1])
                /\ BlockBytes(value_caches[i], value_caches[i].storage, d)
                     = BlockBytes(value_caches[i], Fill(10 * (2 * i + 1), Len(value_caches[i].storage)), e[1])

-----------------------------------------------------------------------------
(* LLMEngine: batch preparation.                                           *)

\* longest token list of a sequence
MaxSeqLen == 3
\* largest block size (tokens per block) of the cache configuration
MaxBlockSize == 2
\* largest sliding window of the model configuration
MaxWindow == 3
\* largest block id the allocator hands out
MaxBlockId == 2
\* most sequences in one scheduled batch
MaxBatch == 2
\* Width of usize in the model.  The targets have 64 bits; the model keeps
\* the wrap-around at a width TLC's integers hold.
UsizeBits == 16

\* llm_engine.rs:25
_PAD_SLOT_ID == -1

UsizeModulus == 2 ^ UsizeBits

\* a - b on usize: overflow panics in a build with overflow checks and wraps
\* in one without.
usize_sub(a, b, checks) ==
    IF a >= b THEN [panic |-> FALSE, value |-> a - b]
    ELSE IF checks THEN [panic |-> TRUE, value |-> 0]
    ELSE [panic |-> FALSE, value |-> (a - b) + UsizeModulus]

\* Ord::min
min(a, b) == IF a <= b THEN a ELSE b

\* usize::div_ceil, used to size the block table a sequence needs
div_ceil(a, b) == (a + b - 1) \div b

\* Vec::get(i): <<>> is None, <<x>> is Some(x); i counts from 0.
vec_get(v, i) == IF i < Len(v) THEN <<v[i + 1]>> ELSE <<>>

\* HashMap::get on block_tables
table_of(tables, id) == IF id \in DOMAIN tables THEN <<tables[id]>> ELSE <<>>

\* [x].repeat(n)
repeat(x, n) == [i \in 1..n |-> x]

\* The sequences of a batch in traversal order: group by group, and within
\* a group in the order of get_seqs().
RECURSIVE flatten(_)
flatten(gs) == IF gs = <<>> THEN <<>> ELSE Head(gs) \o flatten(Tail(gs))

\* llm_engine.rs:137-141  the sliding-window start index of prepare_prompt
start_idx(prompt_len, sw, checks) ==
    IF sw = <<>> THEN [panic |-> FALSE, value |-> 0]
    ELSE LET d == usize_sub(prompt_len, sw[1], checks)
         IN IF d.panic THEN d ELSE [panic |-> FALSE, value |-> min(0, d.value)]

\* llm_engine.rs:143-154  the loop that fills one sequence's slot_mapping,
\* from position i on.  A position before start gets the PAD pushed and
\* then, like every position, its slot.
RECURSIVE prompt_slots(_, _, _, _, _, _)
prompt_slots(table, bs, prompt_len, start, i, acc) ==
    IF i >= prompt_len THEN [panic |-> FALSE, value |-> acc]
    ELSE LET padded == IF i < start THEN Append(acc, _PAD_SLOT_ID) ELSE acc
             block_number == vec_get(table, i \div bs)
         IN IF block_number = <<>> THEN [panic |-> TRUE, value |-> <<>>]
            ELSE LET block_offset == i % bs
                     slot == block_number[1] * bs + block_offset
                 IN prompt_slots(table, bs, prompt_len, start, i + 1,
                                 Append(padded, slot))

\* llm_engine.rs:118-155  the body of prepare_prompt's loop for one
\* sequence: the rows it pushes.
prompt_rows(seq, tables, bs, sw, checks) ==
    LET prompt_ids == seq.tokens
        prompt_len == Len(prompt_ids)
        positions == [i \in 1..prompt_len |-> i - 1]
        table == table_of(tables, seq.id)
        row(slots) == [panic |-> FALSE, prompt_len |-> prompt_len,
                       tokens |-> prompt_ids, positions |-> positions,
                       slot_mapping |-> slots]
        panicked == [panic |-> TRUE, prompt_len |-> prompt_len,
                     tokens |-> prompt_ids, positions |-> positions,
                     slot_mapping |-> <<>>]
    IN IF table = <<>> THEN row(repeat(_PAD_SLOT_ID, prompt_len))
       ELSE LET st == start_idx(prompt_len, sw, checks)
            IN IF st.panic THEN panicked
               ELSE LET sl == prompt_slots(table[1], bs, prompt_len, st.value, 0, <<>>)
                    IN IF sl.panic THEN panicked ELSE row(sl.value)

\* llm_engine.rs:203-242  the body of prepare_decode's loop for one
\* sequence: the rows it pushes.
decode_rows(seq, tables, bs, sw, checks) ==
    LET len == Len(seq.tokens)
        last_token_id == seq.tokens[len]
        position == len - 1
        context_len == IF sw # <<>> THEN min(len, sw[1]) ELSE len
        table == table_of(tables, seq.id)
        panicked == [panic |-> TRUE]
    IN IF table = <<>> THEN panicked
       ELSE LET block_number == vec_get(table[1], position \div bs)
            IN IF block_number = <<>> THEN panicked
               ELSE LET block_offset == position % bs
                        slot == block_number[1] * bs + block_offset
                        row(bt) == [panic |-> FALSE, tokens |-> <<last_token_id>>,
                                    positions |-> <<position>>,
                                    context_len |-> context_len,
                                    slot_mapping |-> <<slot>>, block_table |-> bt]
                    IN IF sw # <<>>
                       THEN LET sliding_window_blocks == sw[1] \div bs
                                from == usize_sub(Len(table[1]), sliding_window_blocks, checks)
                            IN IF from.panic THEN panicked
                               \* table.get(from..) is None past the end
                               ELSE IF from.value > Len(table[1]) THEN panicked
                               ELSE row(SubSeq(table[1], from.value + 1, Len(table[1])))
                       ELSE row(table[1])

\* The `for group in groups { for seq in ... }` loops: the rows of every
\* sequence in traversal order, or a panic at the first sequence that panics.
RECURSIVE batch_rows(_, _, _, _, _, _)
batch_rows(call, seqs, tables, bs, sw, checks) ==
    IF seqs = <<>> THEN [panic |-> FALSE, rows |-> <<>>]
    ELSE LET r == IF call = "prepare_prompt"
                  THEN prompt_rows(Head(seqs), tables, bs, sw, checks)
                  ELSE decode_rows(Head(seqs), tables, bs, sw, checks)
         IN IF r.panic THEN [panic |-> TRUE, rows |-> <<>>]
            ELSE LET rest == batch_rows(call, Tail(seqs), tables, bs, sw, checks)
                 IN IF rest.panic THEN rest
                    ELSE [panic |-> FALSE, rows |-> <<r>> \o rest.rows]

\* iter().max() of a non-empty Vec<usize>
RECURSIVE max_of(_)
max_of(v) == IF Len(v) = 1 THEN v[1]
             ELSE LET m == max_of(Tail(v)) IN IF v[1] >= m THEN v[1] ELSE m

\* super::_make_tensor_with_pad: every row extended with `pad` to max_len;
\* a row longer than max_len fails its length assertion.
_make_tensor_with_pad(x, max_len, pad) ==
    IF \E k \in DOMAIN x : Len(x[k]) > max_len THEN [panic |-> TRUE, value |-> <<>>]
    ELSE [panic |-> FALSE,
          value |-> [k \in DOMAIN x |-> x[k] \o repeat(pad, max_len - Len(x[k]))]]

Column(rows, f) == [k \in DOMAIN rows |-> rows[k][f]]

\* What a call that panics leaves its caller: nothing.
Panicked(call) == [call |-> call, status |-> "panic"]

\* llm_engine.rs:108-191  prepare_prompt.  The record holds the Vecs as they
\* are before padding and the padded tensors of PreparedInputs.
prepare_prompt_result(gs, tables, bs, sw, checks) ==
    LET b == batch_rows("prepare_prompt", flatten(gs), tables, bs, sw, checks)
    IN IF b.panic THEN Panicked("prepare_prompt")
       \* prompt_lens.iter().max().unwrap()
       ELSE IF b.rows = <<>> THEN Panicked("prepare_prompt")
       ELSE LET prompt_lens == Column(b.rows, "prompt_len")
                max_prompt_len == max_of(prompt_lens)
                tokens == _make_tensor_with_pad(Column(b.rows, "tokens"), max_prompt_len, 0)
                positions == _make_tensor_with_pad(Column(b.rows, "positions"), max_prompt_len, 0)
                slot_mapping == _make_tensor_with_pad(Column(b.rows, "slot_mapping"),
                                                      max_prompt_len, _PAD_SLOT_ID)
            IN IF tokens.panic \/ positions.panic \/ slot_mapping.panic
               THEN Panicked("prepare_prompt")
               ELSE [call |-> "prepare_prompt", status |-> "ok",
                     prompt_lens |-> prompt_lens,
                     input_tokens |-> Column(b.rows, "tokens"),
                     input_positions |-> Column(b.rows, "positions"),
                     slot_mappings |-> Column(b.rows, "slot_mapping"),
                     tokens |-> tokens.value,
                     positions |-> positions.value,
                     slot_mapping |-> slot_mapping.value,
                     is_prompt |-> TRUE]

\* llm_engine.rs:193-294  prepare_decode.
prepare_decode_result(gs, tables, bs, sw, checks) ==
    LET b == batch_rows("prepare_decode", flatten(gs), tables, bs, sw, checks)
    IN IF b.panic THEN Panicked("prepare_decode")
       \* context_lens.iter().max().unwrap()
       ELSE IF b.rows = <<>> THEN Panicked("prepare_decode")
       ELSE LET context_lens == Column(b.rows, "context_len")
                tables_out == Column(b.rows, "block_table")
                max_block_table_len == max_of([k \in DOMAIN tables_out |-> Len(tables_out[k])])
                tokens == _make_tensor_with_pad(Column(b.rows, "tokens"), 1, 0)
                positions == _make_tensor_with_pad(Column(b.rows, "positions"), 1, 0)
                slot_mapping == _make_tensor_with_pad(Column(b.rows, "slot_mapping"),
                                                      1, _PAD_SLOT_ID)
                padded_tables == _make_tensor_with_pad(tables_out, max_block_table_len, 0)
            IN [call |-> "prepare_decode", status |-> "ok",
                input_tokens |-> Column(b.rows, "tokens"),
                input_positions |-> Column(b.rows, "positions"),
                slot_mappings |-> Column(b.rows, "slot_mapping"),
                context_lens |-> context_lens,
                block_tables |-> tables_out,
                tokens |-> tokens.value,
                positions |-> positions.value,
                slot_mapping |-> slot_mapping.value,
                max_context_len |-> max_of(context_lens),
                padded_block_tables |-> padded_tables.value,
                is_prompt |-> FALSE]

-----------------------------------------------------------------------------
(* The batches a call is made on.                                          *)

\* Token ids of the prompts.
Vocab == {10, 20}

TokenLists == UNION {[1..n -> Vocab] : n \in 1..MaxSeqLen}

\* The block tables the allocator gives a sequence of n tokens: one
\* distinct block per block_size tokens, ceil(n / block_size) in all.
TablesFor(n, bs) ==
    {tb \in [1..div_ceil(n, bs) -> 0..MaxBlockId] :
        \A i, j \in DOMAIN tb : i # j => tb[i] # tb[j]}

\* A sequence as the scheduler holds it: its tokens and its block table
\* (<<tb>>), or no table yet (<<>>) while the engine profiles.
SeqData(bs, tableless) ==
    UNION {{[tokens |-> tk, table |-> <<tb>>] : tb \in TablesFor(Len(tk), bs)} :
             tk \in TokenLists}
    \cup (IF tableless THEN {[tokens |-> tk, table |-> <<>>] : tk \in TokenLists} ELSE {})

\* The sequences split into consecutive groups: a new group starts after
\* every index in cuts.
RECURSIVE group_by(_, _)
group_by(seqs, cuts) ==
    IF seqs = <<>> THEN <<>>
    ELSE LET n == CHOOSE k \in 1..Len(seqs) :
                    /\ (k \in cuts \/ k = Len(seqs))
                    /\ \A l \in 1..(k - 1) : l \notin cuts
         IN <<SubSeq(seqs, 1, n)>>
            \o group_by(SubSeq(seqs, n + 1, Len(seqs)), {c - n : c \in {x \in cuts : x > n}})

\* Sequence ids are the engine's: 0, 1, ... in admission order.
SequencesOf(data, is_prompt) ==
    [k \in DOMAIN data |->
        [id |-> k - 1, tokens |-> data[k].tokens, is_prompt |-> is_prompt]]

BlockTablesOf(data) ==
    [id \in {k - 1 : k \in {x \in DOMAIN data : data[x].table # <<>>}} |->
        data[id + 1].table[1]]

\* One call of prepare_prompt on a scheduled batch of prompt-phase sequences.
prepare_prompt ==
    /\ prepared.call = "none"
    /\ \E n \in 1..MaxBatch :
         \E data \in [1..n -> SeqData(block_size, TRUE)], cuts \in SUBSET (1..(n - 1)) :
            /\ groups' = group_by(SequencesOf(data, TRUE), cuts)
            /\ block_tables' = BlockTablesOf(data)
            /\ prepared' = prepare_prompt_result(groups', block_tables', block_size,
                                                 sliding_window, overflow_checks)
    /\ UNCHANGED <<transferVars, configVars, engineVars>>

\* One call of prepare_decode on a scheduled batch of decode-phase
\* sequences, each of which the allocator has given its table.
prepare_decode ==
    /\ prepared.call = "none"
    /\ \E n \in 1..MaxBatch :
         \E data \in [1..n -> SeqData(block_size, FALSE)], cuts \in SUBSET (1..(n - 1)) :
            /\ groups' = group_by(SequencesOf(data, FALSE), cuts)
            /\ block_tables' = BlockTablesOf(data)
            /\ prepared' = prepare_decode_result(groups', block_tables', block_size,
                                                 sliding_window, overflow_checks)
    /\ UNCHANGED <<transferVars, configVars, engineVars>>

\* LLMEngine::new (llm_engine.rs:38-56) takes the block size from the cache
\* configuration and the sliding window from the model configuration.
ConfigInit ==
    /\ block_size \in 1..MaxBlockSize
    /\ sliding_window \in {<<>>} \cup {<<w>> : w \in 1..MaxWindow}
    /\ overflow_checks \in BOOLEAN

PrepareNext == prepare_prompt \/ prepare_decode

-----------------------------------------------------------------------------
(* LLMEngine: admission and the generate loop.                             *)

\* most requests admitted to one engine
MaxRequests == 3

\* The prompts of the requests: the shortest and the longest token list.
RequestPrompts == {[i \in 1..n |-> 10 * i] : n \in {1, MaxSeqLen}}

\* Scheduler::add_sequence: the scheduler keeps the group, not yet scheduled.
add_sequence(sched, seq_group) ==
    [sched EXCEPT !.seq_groups = Append(@, [group |-> seq_group, phase |-> "waiting"])]

\* llm_engine.rs:58-74  add_request: the counters and the scheduler after
\* the prompt has been wrapped into one Sequence and one SequenceGroup.
AddRequestReusingGroupId(prompt, sid, gid, sched) ==
    LET seq == [id |-> sid, tokens |-> prompt, is_prompt |-> TRUE]
        seq_group == [group_id |-> gid, seqs |-> <<seq>>]
    IN [seq_id |-> sid + 1, group_id |-> gid,
        scheduler |-> add_sequence(sched, seq_group)]
add_request_state(prompt, sid, gid, sched) ==
    LET seq == [id |-> sid, tokens |-> prompt, is_prompt |-> TRUE]
        seq_group == [group_id |-> gid, seqs |-> <<seq>>]
    IN [seq_id |-> sid + 1, group_id |-> gid + 1,
        scheduler |-> add_sequence(sched, seq_group)]

\* Scheduler::has_unfinished_sequences
has_unfinished_sequences(sched) ==
    \E k \in DOMAIN sched.seq_groups : sched.seq_groups[k].phase # "finished"

\* The allocator's table for a sequence scheduled for the first time:
\* ceil(len / block_size) fresh blocks.
allocate(sched, tables, seq, bs) ==
    LET n == div_ceil(Len(seq.tokens), bs)
    IN [scheduler |-> [sched EXCEPT !.next_block = @ + n],
        block_tables |-> [id \in DOMAIN tables \cup {seq.id} |->
                            IF id = seq.id THEN [i \in 1..n |-> sched.next_block + (i - 1)]
                            ELSE tables[id]]]

RECURSIVE allocate_all(_, _, _, _)
allocate_all(sched, tables, seqs, bs) ==
    IF seqs = <<>> THEN [scheduler |-> sched, block_tables |-> tables]
    ELSE LET a == allocate(sched, tables, Head(seqs), bs)
         IN allocate_all(a.scheduler, a.block_tables, Tail(seqs), bs)

\* The indices of S in increasing order.
RECURSIVE sorted(_)
sorted(S) == IF S = {} THEN <<>>
             ELSE LET m == CHOOSE x \in S : \A y \in S : x <= y
                  IN <<m>> \o sorted(S \ {m})

\* Scheduler::schedule, for the choice (S, I, F) it makes: S the unfinished
\* groups it schedules (all waiting: a prompt round; all running: a decode
\* round), I the unfinished groups it reports as ignored, F the groups of a
\* decode round that finish with it.  A waiting group gets its block tables
\* and runs; a running group leaves the prompt phase.
schedule(sched, tables, bs, S, I, F) ==
    LET gs == sched.seq_groups
        first_round == \A k \in S : gs[k].phase = "waiting"
        phase_after(k) == IF k \in F THEN "finished" ELSE "running"
        seqs_after(k) == [j \in DOMAIN gs[k].group.seqs |->
                            [gs[k].group.seqs[j] EXCEPT !.is_prompt = first_round]]
        gs_after == [k \in DOMAIN gs |->
                        IF k \in S
                        THEN [group |-> [gs[k].group EXCEPT !.seqs = seqs_after(k)],
                              phase |-> phase_after(k)]
                        ELSE gs[k]]
        order == sorted(S)
        scheduled == [i \in DOMAIN order |-> gs_after[order[i]].group]
        a == IF first_round
             THEN allocate_all(sched, tables,
                               flatten([i \in DOMAIN scheduled |-> scheduled[i].seqs]), bs)
             ELSE [scheduler |-> sched, block_tables |-> tables]
        ignored_order == sorted(I)
    IN [scheduler |-> [a.scheduler EXCEPT !.seq_groups = gs_after],
        block_tables |-> a.block_tables,
        scheduled |-> scheduled,
        ignored_seq_groups |-> [i \in DOMAIN ignored_order |-> gs[ignored_order[i]].group]]

\* The choices schedule() has.  While groups wait it runs a prompt round:
\* each waiting group is either scheduled or reported as ignored.  Once none
\* waits it runs a decode round of the running groups, any of which may
\* finish with it.
ScheduleChoices(sched) ==
    LET gs == sched.seq_groups
        W == {k \in DOMAIN gs : gs[k].phase = "waiting"}
        R == {k \in DOMAIN gs : gs[k].phase = "running"}
    IN IF W # {}
       THEN {<<S, W \ S, {}>> : S \in SUBSET W}
       ELSE {<<R, {}, F>> : F \in SUBSET R}

\* add_request called on its own.
add_request ==
    /\ gen_pc = "idle"
    /\ seq_id < MaxRequests
    /\ \E prompt \in RequestPrompts :
         LET a == add_request_state(prompt, seq_id, group_id, scheduler)
         IN /\ seq_id' = a.seq_id
            /\ group_id' = a.group_id
            /\ scheduler' = a.scheduler
    /\ UNCHANGED <<scheduler_outputs, gen_pc>>
    /\ UNCHANGED <<transferVars, configVars, prepareVars>>

\* llm_engine.rs:76-77  generate admits the prompt and enters its loop.
generate ==
    /\ gen_pc = "idle"
    /\ seq_id < MaxRequests
    /\ \E prompt \in RequestPrompts :
         LET a == add_request_state(prompt, seq_id, group_id, scheduler)
         IN /\ seq_id' = a.seq_id
            /\ group_id' = a.group_id
            /\ scheduler' = a.scheduler
    /\ gen_pc' = "loop"
    /\ UNCHANGED scheduler_outputs
    /\ UNCHANGED <<transferVars, configVars, prepareVars>>

\* llm_engine.rs:78-105  one test of the loop condition and, when it holds,
\* one round of the loop; when it fails, the todo!() after the loop.
\*   79     schedule()
\*   80-82  todo!() when groups were ignored
\*   89-96  the first sequence of the first scheduled group picks the path
\*   98,102 prepare_prompt or prepare_decode on the scheduled groups
generate_loop ==
    /\ gen_pc = "loop"
    /\ IF ~has_unfinished_sequences(scheduler)
       THEN /\ gen_pc' = "panic: todo!() after the loop"
            /\ UNCHANGED <<scheduler, scheduler_outputs, groups, block_tables, prepared>>
       ELSE \E c \in ScheduleChoices(scheduler) :
              /\ LET out == schedule(scheduler, block_tables, block_size, c[1], c[2], c[3])
                 IN /\ scheduler' = out.scheduler
                    /\ block_tables' = out.block_tables
                    /\ scheduler_outputs' = [scheduled |-> out.scheduled,
                                             ignored_seq_groups |-> out.ignored_seq_groups]
              /\ IF scheduler_outputs'.ignored_seq_groups # <<>>
                 THEN /\ gen_pc' = "panic: todo!() on ignored groups"
                      /\ UNCHANGED <<groups, prepared>>
                 ELSE IF scheduler_outputs'.scheduled = <<>>
                 THEN /\ gen_pc' = "panic: front().unwrap()"
                      /\ UNCHANGED <<groups, prepared>>
                 ELSE /\ groups' = [i \in DOMAIN scheduler_outputs'.scheduled |->
                                        scheduler_outputs'.scheduled[i].seqs]
                      /\ prepared' =
                           IF groups'[1][1].is_prompt
                           THEN prepare_prompt_result(groups', block_tables', block_size,
                                                      sliding_window, overflow_checks)
                           ELSE prepare_decode_result(groups', block_tables', block_size,
                                                      sliding_window, overflow_checks)
                      /\ gen_pc' = IF prepared'.status = "panic"
                                   THEN "panic: prepare" ELSE "loop"
    /\ UNCHANGED <<seq_id, group_id>>
    /\ UNCHANGED <<transferVars, configVars>>

-----------------------------------------------------------------------------
(* Specifications.                                                         *)

ConfigAtRest ==
    block_size = 1 /\ sliding_window = <<>> /\ overflow_checks = FALSE

PrepareInit ==
    groups = <<>> /\ block_tables = <<>> /\ prepared = [call |-> "none"]

\* llm_engine.rs:43-55  LLMEngine::new: both counters start at 0 and the
\* scheduler holds no group.
EngineInit ==
    /\ seq_id = 0
    /\ group_id = 0
    /\ scheduler = [seq_groups |-> <<>>, next_block |-> 0]
    /\ scheduler_outputs = [scheduled |-> <<>>, ignored_seq_groups |-> <<>>]
    /\ gen_pc = "idle"

InitTransfer == TransferInit /\ ConfigAtRest /\ PrepareInit /\ EngineInit

\* One call of swap_blocks or copy_blocks.
SpecTransfer == InitTransfer /\ [][TransferNext]_vars

InitPrepare == TransferInit /\ ConfigInit /\ PrepareInit /\ EngineInit

\* One call of prepare_prompt or prepare_decode under each configuration.
SpecPrepare == InitPrepare /\ [][PrepareNext]_vars

Init == TransferInit /\ ConfigInit /\ PrepareInit /\ EngineInit

Next == add_request \/ generate \/ generate_loop

\* The engine: admissions and the generate loop.
Spec == Init /\ [][Next]_vars

-----------------------------------------------------------------------------
(* Properties of batch preparation.  They read the batch the last call was *)
(* made on (groups, block_tables) and what it produced (prepared).         *)

\* The sequences of the batch in traversal order, and each one's table.
Batch == flatten(groups)
TableOf(k) == table_of(block_tables, Batch[k].id)
PromptLen(k) == Len(Batch[k].tokens)

\* The physical slot of position i under table tb.
SlotAt(tb, i) == tb[(i \div block_size) + 1] * block_size + (i % block_size)

\* C4: prepare_prompt gives every sequence that has a block table, with or
\* without a sliding window, a slot mapping of exactly prompt_len entries
\* in which every resolved entry i is table[i / block_size] * block_size
\* + i % block_size.
C4_PromptSlotMappingResolvesEveryPosition ==
    prepared.call = "prepare_prompt" =>
        \A k \in DOMAIN Batch :
            TableOf(k) # <<>> =>
                /\ prepared.status = "ok"
                /\ Len(prepared.slot_mappings[k]) = PromptLen(k)
                /\ \A i \in 0..(PromptLen(k) - 1) :
                      prepared.slot_mappings[k][i + 1] # _PAD_SLOT_ID =>
                          prepared.slot_mappings[k][i + 1] = SlotAt(TableOf(k)[1], i)

\* C5: with a sliding window W and a block table, prepare_prompt does not
\* fail, the leading prompt_len - W positions (none when prompt_len <= W)
\* get the PAD sentinel and every other position gets its physical slot.
C5_PromptPadsPositionsOutsideTheWindow ==
    (prepared.call = "prepare_prompt" /\ sliding_window # <<>>) =>
        \A k \in DOMAIN Batch :
            TableOf(k) # <<>> =>
                LET start == IF PromptLen(k) > sliding_window[1]
                             THEN PromptLen(k) - sliding_window[1] ELSE 0
                IN /\ prepared.status = "ok"
                   /\ Len(prepared.slot_mappings[k]) = PromptLen(k)
                   /\ \A i \in 0..(PromptLen(k) - 1) :
                         prepared.slot_mappings[k][i + 1] =
                            IF i < start THEN _PAD_SLOT_ID ELSE SlotAt(TableOf(k)[1], i)

\* C6: a sequence without a block table is no error for prepare_prompt: its
\* slot-mapping row is PAD at each of its prompt_len positions, its tokens
\* and positions are emitted, and the other sequences of the batch get
\* their rows as usual.
C6_PromptWithoutTableIsAllPad ==
    prepared.call = "prepare_prompt" =>
        \A k \in DOMAIN Batch :
            TableOf(k) = <<>> =>
                /\ prepared.status = "ok"
                /\ prepared.slot_mappings[k] = repeat(_PAD_SLOT_ID, PromptLen(k))
                /\ prepared.input_tokens[k] = Batch[k].tokens
                /\ prepared.input_positions[k] = [i \in 1..PromptLen(k) |-> i - 1]
                /\ Len(prepared.slot_mappings) = Len(Batch)
                /\ \A j \in DOMAIN Batch :
                      /\ prepared.input_tokens[j] = Batch[j].tokens
                      /\ TableOf(j) # <<>> =>
                            \A i \in 0..(PromptLen(j) - 1) :
                                prepared.slot_mappings[j][i + 1]
                                    \in {_PAD_SLOT_ID, SlotAt(TableOf(j)[1], i)}

\* The last n entries of a table.
LastEntries(tb, n) == SubSeq(tb, Len(tb) - n + 1, Len(tb))

\* C7: with a sliding window W, prepare_decode emits for each sequence the
\* last min(len(table), ceil(W / block_size)) entries of its block table;
\* without a sliding window it emits the whole table.
C7_DecodeBlockTableKeepsWindowBlocks ==
    prepared.call = "prepare_decode" =>
        /\ prepared.status = "ok"
        /\ \A k \in DOMAIN Batch :
              prepared.block_tables[k] =
                 IF sliding_window = <<>> THEN TableOf(k)[1]
                 ELSE LastEntries(TableOf(k)[1],
                                  min(Len(TableOf(k)[1]),
                                      div_ceil(sliding_window[1], block_size)))

\* C8: prepare_decode produces for every sequence of length L exactly one
\* row: the last token id, position L - 1, the slot of position L - 1, and
\* the context length L, or min(L, W) under a sliding window W.
C8_DecodeEmitsOneRowPerSequence ==
    prepared.call = "prepare_decode" =>
        /\ prepared.status = "ok"
        /\ Len(prepared.input_tokens) = Len(Batch)
        /\ \A k \in DOMAIN Batch :
              LET L == PromptLen(k)
              IN /\ prepared.input_tokens[k] = <<Batch[k].tokens[L]>>
                 /\ prepared.input_positions[k] = <<L - 1>>
                 /\ prepared.slot_mappings[k] = <<SlotAt(TableOf(k)[1], L - 1)>>
                 /\ prepared.context_lens[k] =
                       IF sliding_window = <<>> THEN L ELSE min(L, sliding_window[1])

-----------------------------------------------------------------------------
(* Properties of the engine.                                               *)

\* C9: a round of generate's loop in which the scheduler reports ignored
\* groups does not end the loop: the loop runs on, so that the groups can
\* be scheduled again.
C9_IgnoredGroupsDoNotAbortTheLoop ==
    scheduler_outputs.ignored_seq_groups # <<>> => gen_pc = "loop"

\* The groups the scheduler has been handed, in admission order.
Admitted == [k \in DOMAIN scheduler.seq_groups |-> scheduler.seq_groups[k].group]

\* What holds after any number of admissions: the counters count them, and
\* the k-th admitted group is a singleton with group id and sequence id k - 1.
AdmissionsNumbered ==
    /\ seq_id = Len(Admitted)
    /\ group_id = Len(Admitted)
    /\ \A k \in DOMAIN Admitted :
          /\ Admitted[k].group_id = k - 1
          /\ Len(Admitted[k].seqs) = 1
          /\ Admitted[k].seqs[1].id = k - 1
    /\ \A k, l \in DOMAIN Admitted :
          k # l => /\ Admitted[k].group_id # Admitted[l].group_id
                   /\ Admitted[k].seqs[1].id # Admitted[l].seqs[1].id

\* What every step does to them: the counters move together, by 0 or by 1,
\* and the scheduler is handed exactly as many groups as they moved.
AdmissionStep ==
    /\ seq_id' \in {seq_id, seq_id + 1}
    /\ group_id' - group_id = seq_id' - seq_id
    /\ Len(scheduler'.seq_groups) = Len(scheduler.seq_groups) + (seq_id' - seq_id)

\* C10: sequence ids and group ids start at 0, grow by exactly 1 with each
\* admission and never decrease; every admitted sequence and group has an id
\* no earlier one has, and each admission hands the scheduler one singleton
\* group.
C10_AdmissionsGetFreshIds == [](AdmissionsNumbered) /\ [][AdmissionStep]_vars

\* C10 witness: add_request has admitted several requests to one engine,
\* the last of them through generate.
C10_Witness ==
    /\ seq_id >= 2 /\ group_id >= 2 /\ Len(scheduler.seq_groups) >= 2
    /\ gen_pc = "loop"

=============================================================================
